---- MODULE Spec2Model ----
(***************************************************************************)
(* Financial metrics and forecast engine of DECISION-OS:                   *)
(*   utils/math.ts   calculateBeta, calculateCovariance, generateForecast  *)
(*   App.tsx         the metrics memo (risk summary)                       *)
(*   stockService.ts getMarketBenchmark                                    *)
(*                                                                         *)
(* JavaScript numbers are IEEE-754 binary floating point.  A number is     *)
(* modelled as <<kind, m, e>>:                                             *)
(*   <<"fin", m, e>>  the finite value m * 2^e, m odd (or m = 0, e = 0)    *)
(*   <<"inf", s, 0>>  s = 1: +Infinity, s = -1: -Infinity                  *)
(*   <<"nan", 0, 0>>  NaN                                                  *)
(* Every arithmetic operation rounds its exact result to the nearest value *)
(* with a mantissa of MantBits bits, ties to even, as IEEE-754 does with   *)
(* 53 bits.  The exponent is unbounded (no overflow or underflow occurs    *)
(* for the inputs considered) and the sign of zero is not kept: every      *)
(* divisor of the code that can be zero is a length, a sum of squares or a *)
(* square root, hence +0.                                                  *)
(***************************************************************************)
EXTENDS Integers, Sequences, FiniteSets, TLC

\* Mantissa width of the modelled floating point format.
MantBits == 5

----------------------------------------------------------------------------
\* Integer helpers

Abs(n) == IF n < 0 THEN -n ELSE n

Sgn(n) == IF n < 0 THEN -1 ELSE IF n = 0 THEN 0 ELSE 1

Min(a, b) == IF a <= b THEN a ELSE b

RECURSIVE Pow2(_)
Pow2(k) == IF k <= 0 THEN 1 ELSE 2 * Pow2(k - 1)

RECURSIVE BitLen(_)
BitLen(n) == IF n = 0 THEN 0 ELSE 1 + BitLen(n \div 2)

RECURSIVE IsqrtIter(_, _, _)
IsqrtIter(n, lo, hi) ==
  IF hi - lo <= 1 THEN lo
  ELSE LET mid == (lo + hi) \div 2
       IN IF mid * mid <= n THEN IsqrtIter(n, mid, hi) ELSE IsqrtIter(n, lo, mid)

\* floor(sqrt(n)) for n >= 0
Isqrt(n) == IsqrtIter(n, 0, Pow2((BitLen(n) + 1) \div 2))

----------------------------------------------------------------------------
\* Numbers

NaN == <<"nan", 0, 0>>

Inf(s) == <<"inf", s, 0>>

Zero == <<"fin", 0, 0>>

One == <<"fin", 1, 0>>

IsNaN(a) == a[1] = "nan"

IsFinite(a) == a[1] = "fin"

RECURSIVE Canon(_, _)
Canon(m, e) ==
  IF m = 0 THEN Zero
  ELSE IF m % 2 = 0 THEN Canon(m \div 2, e + 1)
  ELSE <<"fin", m, e>>

\* The exact value n * 2^e rounded to MantBits bits, ties to even.
RoundNE(n, e) ==
  LET a == Abs(n)
      k == BitLen(a) - MantBits
  IN IF k <= 0 THEN Canon(n, e)
     ELSE LET q    == a \div Pow2(k)
              r    == a % Pow2(k)
              half == Pow2(k - 1)
              up   == r > half \/ (r = half /\ q % 2 = 1)
          IN Canon(Sgn(n) * (IF up THEN q + 1 ELSE q), e + k)

\* An integer (array length, index) as a number.
FromInt(n) == RoundNE(n, 0)

\* Position of the leading bit of a non-zero finite number.
Top(a) == BitLen(Abs(a[2])) + a[3]

\* The operators below take their operands as values (JavaScript evaluates the
\* operands before it applies an operator): each F-operator binds its operands
\* once and applies the arithmetic to the bound values.

NegV(x) == IF x[1] = "nan" THEN NaN ELSE <<x[1], -x[2], x[3]>>

AddV(x, y) ==
  IF x[1] = "nan" \/ y[1] = "nan" THEN NaN
  ELSE IF x[1] = "inf" THEN (IF y[1] = "inf" /\ y[2] # x[2] THEN NaN ELSE x)
  ELSE IF y[1] = "inf" THEN y
  ELSE IF x[2] = 0 THEN y
  ELSE IF y[2] = 0 THEN x
  ELSE IF Top(x) - Top(y) > MantBits + 1 THEN x
  ELSE IF Top(y) - Top(x) > MantBits + 1 THEN y
  ELSE LET e == Min(x[3], y[3])
       IN RoundNE(x[2] * Pow2(x[3] - e) + y[2] * Pow2(y[3] - e), e)

MulV(x, y) ==
  IF x[1] = "nan" \/ y[1] = "nan" THEN NaN
  ELSE IF x[1] = "inf" \/ y[1] = "inf"
       THEN (IF x[2] = 0 \/ y[2] = 0 THEN NaN ELSE Inf(Sgn(x[2]) * Sgn(y[2])))
  ELSE RoundNE(x[2] * y[2], x[3] + y[3])

DivV(x, y) ==
  IF x[1] = "nan" \/ y[1] = "nan" THEN NaN
  ELSE IF x[1] = "inf"
       THEN (IF y[1] = "inf" THEN NaN
             ELSE Inf(IF y[2] < 0 THEN -x[2] ELSE x[2]))
  ELSE IF y[1] = "inf" THEN Zero
  ELSE IF y[2] = 0 THEN (IF x[2] = 0 THEN NaN ELSE Inf(Sgn(x[2])))
  ELSE IF x[2] = 0 THEN Zero
  ELSE LET ma     == Abs(x[2])
           mb     == Abs(y[2])
           s      == MantBits + 3 + BitLen(mb) - BitLen(ma)
           num    == ma * Pow2(s)
           q      == num \div mb
           sticky == IF num % mb = 0 THEN 0 ELSE 1
       IN RoundNE(Sgn(x[2]) * Sgn(y[2]) * (2 * q + sticky), x[3] - y[3] - s - 1)

SqrtV(x) ==
  IF x[1] = "nan" THEN NaN
  ELSE IF x[1] = "inf" THEN (IF x[2] > 0 THEN x ELSE NaN)
  ELSE IF x[2] < 0 THEN NaN
  ELSE IF x[2] = 0 THEN Zero
  ELSE LET sh0    == 2 * MantBits + 4 - BitLen(x[2])
           sh     == sh0 + ((x[3] - sh0) % 2)
           n      == x[2] * Pow2(sh)
           r      == Isqrt(n)
           sticky == IF r * r = n THEN 0 ELSE 1
       IN RoundNE(2 * r + sticky, ((x[3] - sh) \div 2) - 1)

EqV(x, y) == x[1] # "nan" /\ y[1] # "nan" /\ x = y

LtV(x, y) ==
  IF x[1] = "nan" \/ y[1] = "nan" THEN FALSE
  ELSE IF x[1] = "inf" THEN x[2] < 0 /\ y # x
  ELSE IF y[1] = "inf" THEN y[2] > 0
  ELSE IF Sgn(x[2]) # Sgn(y[2]) THEN Sgn(x[2]) < Sgn(y[2])
  ELSE IF x[2] = 0 THEN FALSE
  ELSE IF Top(x) # Top(y)
       THEN (IF x[2] > 0 THEN Top(x) < Top(y) ELSE Top(x) > Top(y))
  ELSE LET e == Min(x[3], y[3])
       IN x[2] * Pow2(x[3] - e) < y[2] * Pow2(y[3] - e)

\* -a
FNeg(a) == CHOOSE r \in { NegV(x) : x \in {a} } : TRUE

\* a + b
FAdd(a, b) == CHOOSE r \in { AddV(x, y) : x \in {a}, y \in {b} } : TRUE

\* a - b
FSub(a, b) == CHOOSE r \in { AddV(x, NegV(y)) : x \in {a}, y \in {b} } : TRUE

\* a * b
FMul(a, b) == CHOOSE r \in { MulV(x, y) : x \in {a}, y \in {b} } : TRUE

\* a / b
FDiv(a, b) == CHOOSE r \in { DivV(x, y) : x \in {a}, y \in {b} } : TRUE

\* Math.sqrt(a)
FSqrt(a) == CHOOSE r \in { SqrtV(x) : x \in {a} } : TRUE

\* Math.pow(a, 2)
FSquare(a) == CHOOSE r \in { MulV(x, x) : x \in {a} } : TRUE

\* a === b
FEq(a, b) == \E x \in {a}, y \in {b} : EqV(x, y)

\* a < b
FLt(a, b) == \E x \in {a}, y \in {b} : LtV(x, y)

\* a <= b
FLe(a, b) == \E x \in {a}, y \in {b} : LtV(x, y) \/ EqV(x, y)

----------------------------------------------------------------------------
\* utils/math.ts

Hundred == FromInt(100)

\* The reduce callback applied to the first k elements of v, from the initial value 0
RECURSIVE SumTo(_, _)
SumTo(v, k) == IF k = 0 THEN Zero ELSE FAdd(SumTo(v, k - 1), v[k])

\* arr.reduce((a, b) => a + b, 0)
SumSeq(s) == CHOOSE r \in { SumTo(v, Len(v)) : v \in {s} } : TRUE

\* BetaLoop accumulating the variance of the stock instead of the market.
RECURSIVE BetaLoop_StockVariance(_, _, _, _, _, _)
BetaLoop_StockVariance(i, stockReturns, marketReturns, meanStock, meanMarket, acc) ==
  IF i >= Len(stockReturns) THEN acc
  ELSE BetaLoop_StockVariance(i + 1, stockReturns, marketReturns, meanStock, meanMarket,
         << FAdd(acc[1], FMul(FSub(stockReturns[i + 1], meanStock),
                              FSub(marketReturns[i + 1], meanMarket))),
            FAdd(acc[2], FSquare(FSub(stockReturns[i + 1], meanStock))) >>)

\* The for loop of calculateBeta from index i on; acc = <<covariance, marketVariance>>.
\* JavaScript index i is element i + 1 of the sequence.
RECURSIVE BetaLoop(_, _, _, _, _, _)
BetaLoop(i, stockReturns, marketReturns, meanStock, meanMarket, acc) ==
  IF i >= Len(stockReturns) THEN acc
  ELSE BetaLoop(i + 1, stockReturns, marketReturns, meanStock, meanMarket,
         << FAdd(acc[1], FMul(FSub(stockReturns[i + 1], meanStock),
                              FSub(marketReturns[i + 1], meanMarket))),
            FAdd(acc[2], FSquare(FSub(marketReturns[i + 1], meanMarket))) >>)

\* calculateBeta with its result clamped to [-1, 1].
calculateBeta_Clamped(stockReturns, marketReturns) ==
  IF Len(stockReturns) # Len(marketReturns) THEN One
  ELSE LET n          == FromInt(Len(stockReturns))
           meanStock  == FDiv(SumSeq(stockReturns), n)
           meanMarket == FDiv(SumSeq(marketReturns), n)
           acc        == BetaLoop(0, stockReturns, marketReturns, meanStock, meanMarket,
                                  <<Zero, Zero>>)
           b          == IF FEq(acc[2], Zero) THEN One ELSE FDiv(acc[1], acc[2])
       IN IF FLt(One, b) THEN One ELSE IF FLt(b, FNeg(One)) THEN FNeg(One) ELSE b

\* calculateBeta whose guard only rejects a longer stock series.
calculateBeta_GuardOnlyLonger(stockReturns, marketReturns) ==
  IF Len(stockReturns) > Len(marketReturns) THEN One
  ELSE LET n          == FromInt(Len(stockReturns))
           meanStock  == FDiv(SumSeq(stockReturns), n)
           meanMarket == FDiv(SumSeq(marketReturns), n)
           acc        == BetaLoop(0, stockReturns, marketReturns, meanStock, meanMarket,
                                  <<Zero, Zero>>)
       IN IF FEq(acc[2], Zero) THEN One ELSE FDiv(acc[1], acc[2])

calculateBeta(stockReturns, marketReturns) ==
  IF Len(stockReturns) # Len(marketReturns) THEN One
  ELSE LET n          == FromInt(Len(stockReturns))
           meanStock  == FDiv(SumSeq(stockReturns), n)
           meanMarket == FDiv(SumSeq(marketReturns), n)
           acc        == BetaLoop(0, stockReturns, marketReturns, meanStock, meanMarket,
                                  <<Zero, Zero>>)
       IN IF FEq(acc[2], Zero) THEN One ELSE FDiv(acc[1], acc[2])

\* Number of array elements calculateBeta reads: none on the length guard,
\* else n per reduce and three per loop iteration.
BetaReads(stockReturns, marketReturns) ==
  IF Len(stockReturns) # Len(marketReturns) THEN 0
  ELSE 5 * Len(stockReturns)

\* CovLoop subtracting each product from the running sum.
RECURSIVE CovLoop_Subtracting(_, _, _, _, _, _)
CovLoop_Subtracting(i, arr1, arr2, mean1, mean2, sum) ==
  IF i >= Len(arr1) THEN sum
  ELSE CovLoop_Subtracting(i + 1, arr1, arr2, mean1, mean2,
         FSub(sum, FMul(FSub(arr1[i + 1], mean1), FSub(arr2[i + 1], mean2))))

\* The for loop of calculateCovariance from index i on.
RECURSIVE CovLoop(_, _, _, _, _, _)
CovLoop(i, arr1, arr2, mean1, mean2, sum) ==
  IF i >= Len(arr1) THEN sum
  ELSE CovLoop(i + 1, arr1, arr2, mean1, mean2,
         FAdd(sum, FMul(FSub(arr1[i + 1], mean1), FSub(arr2[i + 1], mean2))))

\* calculateCovariance dividing by n (population covariance).
calculateCovariance_DivByN(arr1, arr2) ==
  IF Len(arr1) # Len(arr2) \/ Len(arr1) = 0 THEN Zero
  ELSE LET n     == Len(arr1)
           mean1 == FDiv(SumSeq(arr1), FromInt(n))
           mean2 == FDiv(SumSeq(arr2), FromInt(n))
           sum   == CovLoop(0, arr1, arr2, mean1, mean2, Zero)
       IN FDiv(sum, FromInt(n))

calculateCovariance(arr1, arr2) ==
  IF Len(arr1) # Len(arr2) \/ Len(arr1) = 0 THEN Zero
  ELSE LET n     == Len(arr1)
           mean1 == FDiv(SumSeq(arr1), FromInt(n))
           mean2 == FDiv(SumSeq(arr2), FromInt(n))
           sum   == CovLoop(0, arr1, arr2, mean1, mean2, Zero)
       IN FDiv(sum, FromInt(n - 1))

\* Number of array elements calculateCovariance reads.
CovReads(arr1, arr2) ==
  IF Len(arr1) # Len(arr2) \/ Len(arr1) = 0 THEN 0
  ELSE 4 * Len(arr1)

\* Default value of the steps parameter of generateForecast.
DefaultSteps == 6

\* slope and intercept of the least-squares line over x = 0..n-1, y = data
Regression(data) ==
  LET n     == Len(data)
      sumX  == SumSeq([i \in 1..n |-> FromInt(i - 1)])
      sumY  == SumSeq(data)
      sumXY == SumSeq([i \in 1..n |-> FMul(FromInt(i - 1), data[i])])
      sumXX == SumSeq([i \in 1..n |-> FMul(FromInt(i - 1), FromInt(i - 1))])
      slope == FDiv(FSub(FMul(FromInt(n), sumXY), FMul(sumX, sumY)),
                    FSub(FMul(FromInt(n), sumXX), FMul(sumX, sumX)))
      intercept == FDiv(FSub(sumY, FMul(slope, sumX)), FromInt(n))
  IN [sumY |-> sumY, slope |-> slope, intercept |-> intercept]

\* ForecastPoint with a floor at zero.
ForecastPoint_FloorAtZero(slope, intercept, i) ==
  LET p == FAdd(FMul(slope, FromInt(i)), intercept)
  IN IF FLt(p, Zero) THEN Zero ELSE p

\* A projected point, slope * i + intercept: no clamping is applied.
ForecastPoint(slope, intercept, i) == FAdd(FMul(slope, FromInt(i)), intercept)

\* generateForecast filling the forecast from the far end of the horizon.
generateForecast_FarEndFirst(data, steps) ==
  LET n        == Len(data)
      reg      == Regression(data)
      forecast == [k \in 1..steps |-> ForecastPoint(reg.slope, reg.intercept, n + steps - k)]
      yMean    == FDiv(reg.sumY, FromInt(n))
      ssTot    == SumSeq([i \in 1..n |-> FSquare(FSub(data[i], yMean))])
      ssRes    == SumSeq([i \in 1..n |->
                    FSquare(FSub(data[i], ForecastPoint(reg.slope, reg.intercept, i - 1)))])
      rSquared == IF FEq(ssTot, Zero) THEN Zero ELSE FSub(One, FDiv(ssRes, ssTot))
  IN [forecast |-> forecast, rSquared |-> rSquared]

generateForecast(data, steps) ==
  LET n        == Len(data)
      reg      == Regression(data)
      forecast == [k \in 1..steps |-> ForecastPoint(reg.slope, reg.intercept, n + k - 1)]
      yMean    == FDiv(reg.sumY, FromInt(n))
      ssTot    == SumSeq([i \in 1..n |-> FSquare(FSub(data[i], yMean))])
      ssRes    == SumSeq([i \in 1..n |->
                    FSquare(FSub(data[i], ForecastPoint(reg.slope, reg.intercept, i - 1)))])
      rSquared == IF FEq(ssTot, Zero) THEN Zero ELSE FSub(One, FDiv(ssRes, ssTot))
  IN [forecast |-> forecast, rSquared |-> rSquared]

----------------------------------------------------------------------------
\* services/stockService.ts and the metrics memo of App.tsx
\*
\* A record lists its fields in the order in which the names first occur in
\* this module (symbol, growth, volatility, sharpe, beta, covariance, cagr,
\* confidence): TLC then builds it already normalized.

\* Values Math.random() can make (Math.random() - 0.49) * 0.015 take.
BenchValues == { Zero, RoundNE(11, -11) }

\* getMarketBenchmark returning one value more than asked for.
getMarketBenchmark_OneMore(length) == [1..(length + 1) -> BenchValues]

\* getMarketBenchmark(length): every array of that many random values.
getMarketBenchmark(length) == [1..length -> BenchValues]

\* Returns dividing by the later close of each pair.
Returns_OverLaterClose(closes) ==
  [i \in 1..(Len(closes) - 1) |-> FDiv(FSub(closes[i + 1], closes[i]), closes[i + 1])]

\* closes.slice(1).map((c, i) => (c - closes[i]) / closes[i])
Returns(closes) ==
  [i \in 1..(Len(closes) - 1) |-> FDiv(FSub(closes[i + 1], closes[i]), closes[i])]

NeutralSummary(symbol) ==
  [symbol |-> symbol, growth |-> Zero, volatility |-> Zero, sharpe |-> Zero,
   beta |-> One, covariance |-> Zero, cagr |-> Zero, confidence |-> Zero]

\* Metrics taking confidence from a regression over the returns, not the closes.
Metrics_ConfidenceOfReturns(closes, benchmarkReturns, symbol) ==
  IF Len(closes) < 2 THEN NeutralSummary(symbol)
  ELSE LET returns == Returns(closes)
           len     == FromInt(Len(returns))
           growth  == FMul(FDiv(SumSeq(returns), len), Hundred)
           mean    == FDiv(growth, Hundred)
           vol     == FMul(FSqrt(FDiv(SumSeq([i \in 1..Len(returns) |->
                                        FSquare(FSub(returns[i], mean))]), len)),
                           Hundred)
           beta    == calculateBeta(returns, benchmarkReturns)
           cov     == calculateCovariance(returns, benchmarkReturns)
           rSq     == generateForecast(returns, DefaultSteps).rSquared
       IN [symbol |-> symbol, growth |-> growth, volatility |-> vol,
           sharpe |-> FDiv(growth, vol), beta |-> beta, covariance |-> cov,
           cagr |-> Zero, confidence |-> FMul(rSq, Hundred)]

\* Metrics with the cold-start guard off by one (length < 1).
Metrics_GuardBelowOne(closes, benchmarkReturns, symbol) ==
  IF Len(closes) < 1 THEN NeutralSummary(symbol)
  ELSE LET returns == Returns(closes)
           len     == FromInt(Len(returns))
           growth  == FMul(FDiv(SumSeq(returns), len), Hundred)
           mean    == FDiv(growth, Hundred)
           vol     == FMul(FSqrt(FDiv(SumSeq([i \in 1..Len(returns) |->
                                        FSquare(FSub(returns[i], mean))]), len)),
                           Hundred)
           beta    == calculateBeta(returns, benchmarkReturns)
           cov     == calculateCovariance(returns, benchmarkReturns)
           rSq     == generateForecast(closes, DefaultSteps).rSquared
       IN [symbol |-> symbol, growth |-> growth, volatility |-> vol,
           sharpe |-> FDiv(growth, vol), beta |-> beta, covariance |-> cov,
           cagr |-> Zero, confidence |-> FMul(rSq, Hundred)]

\* The metrics memo for the closes of state.stockHistory, with benchmarkReturns
\* the array getMarketBenchmark returned.
Metrics(closes, benchmarkReturns, symbol) ==
  IF Len(closes) < 2 THEN NeutralSummary(symbol)
  ELSE LET returns == Returns(closes)
           len     == FromInt(Len(returns))
           growth  == FMul(FDiv(SumSeq(returns), len), Hundred)
           mean    == FDiv(growth, Hundred)
           vol     == FMul(FSqrt(FDiv(SumSeq([i \in 1..Len(returns) |->
                                        FSquare(FSub(returns[i], mean))]), len)),
                           Hundred)
           beta    == calculateBeta(returns, benchmarkReturns)
           cov     == calculateCovariance(returns, benchmarkReturns)
           rSq     == generateForecast(closes, DefaultSteps).rSquared
       IN [symbol |-> symbol, growth |-> growth, volatility |-> vol,
           sharpe |-> FDiv(growth, vol), beta |-> beta, covariance |-> cov,
           cagr |-> Zero, confidence |-> FMul(rSq, Hundred)]

\* The functions the metrics memo calls for a history of that many points.
MetricsCalls(closes) ==
  IF Len(closes) < 2 THEN {}
  ELSE {"getMarketBenchmark", "calculateBeta", "calculateCovariance", "generateForecast"}

----------------------------------------------------------------------------
\* The path of a close from the quote source into state.stockHistory:
\* quick-start.sh (backend route GET /api/stock/:symbol) and fetchStockHistory

\* A missing quote (null in the source's close array)
Null == <<"null", 0, 0>>

\* quotes.close[i] || 0: null, 0 and NaN are falsy
OrZero(q) == IF q = Null \/ q = Zero \/ q = NaN THEN Zero ELSE q

\* The closes of the backend's stockData: timestamps.map(...).filter(d => d.close > 0)
BackendCloses(quotes) ==
  SelectSeq([i \in 1..Len(quotes) |-> OrZero(quotes[i])], LAMBDA c : FLt(Zero, c))

\* The number nearest to the quotient n / d of two integers, n >= 0 and d > 0
\* (parseFloat of a decimal string)
RoundRatio(n, d) ==
  IF n = 0 THEN Zero
  ELSE LET s0     == MantBits + 3 + BitLen(d) - BitLen(n)
           s      == IF s0 < 0 THEN 0 ELSE s0
           num    == n * Pow2(s)
           sticky == IF num % d = 0 THEN 0 ELSE 1
       IN RoundNE(2 * (num \div d) + sticky, -s - 1)

\* round(100 * x) as toFixed(2) takes it for x >= 0: the integer n with n / 100
\* nearest to x, the larger one on a tie
Hundredths(x) ==
  IF x[3] >= 0 THEN 100 * x[2] * Pow2(x[3])
  ELSE (200 * x[2] + Pow2(-x[3])) \div (2 * Pow2(-x[3]))

\* parseFloat(x.toFixed(2)) for a finite x >= 0
ToFixed2(x) == RoundRatio(Hundredths(x), 100)

\* The closes fetchStockHistory returns for the backend's data
ClientCloses(served) == [i \in 1..Len(served) |-> ToFixed2(served[i])]

\* What handleStockSearch passes to setState, <<stockSymbol, closes of
\* stockHistory>>, for what the quote source delivers: <<"error", <<>>>> (network
\* error, timeout, unknown ticker) or <<"chart", the chart's close array>>. The
\* backend answers 404 when no point is left, fetchStockHistory throws, and
\* the catch branch resets the symbol and the history.
SearchOutcome(symbol, source) ==
  IF source[1] = "error" THEN <<"", <<>>>>
  ELSE IF BackendCloses(source[2]) = <<>> THEN <<"", <<>>>>
  ELSE <<symbol, ClientCloses(BackendCloses(source[2]))>>

----------------------------------------------------------------------------
\* Bounds of the inputs

MaxLen == 3
MaxSteps == 3
MaxStatLen == 3
MaxHistLen == 3
MaxQuoteLen == 3

SeqsUpTo(S, n) == UNION { [1..k -> S] : k \in 0..n }

\* close prices given to generateForecast; 17 and 18 use every bit of a
\* MantBits = 5 mantissa, so their sum is rounded
CloseValues == { One, FromInt(2), FromInt(3), FromInt(11), FromInt(17), FromInt(18) }

\* return values given to calculateBeta and calculateCovariance: no change, a
\* fall of 3/512 and a rise of 11/2048
StatValues == { Zero, RoundNE(-3, -9), RoundNE(11, -11) }

\* close prices of a fetched history; the fall from 3 to 2 is a return whose
\* hundredfold is rounded
HistValues == { One, FromInt(2), FromInt(3) }

Symbols == { "AAPL", "TSLA" }

\* closes in the quote source's chart: a missing quote, a negative value, a
\* price below half a cent (1/256) and the price 1
QuoteValues == { Null, FNeg(One), RoundNE(1, -8), One }

\* what the quote source delivers for a request
Sources == {<<"error", <<>>>>} \cup { <<"chart", q>> : q \in SeqsUpTo(QuoteValues, MaxQuoteLen) }

----------------------------------------------------------------------------
\* State

VARIABLES
  data, steps, fc, fcDone,                    \* a call of generateForecast and its result
  fcLog,                                      \* every call made: <<steps, data before, data after, result>>
  xs, ys, betaRes, betaReads, covRes, covReads, statDone,
                                              \* calls of calculateBeta / calculateCovariance
  stockSymbol, stockHistory,                  \* state.stockSymbol, closes of state.stockHistory
  benchmarkReturns, metrics, calls,           \* the last evaluation of the metrics memo
  zeroVolSharpes,                             \* sharpe values seen with volatility 0, length >= 2
  view, selectedDept, isLoadingStock, error,  \* fields of the App state
  inputSymbol,                                \* the ticker input (useState of its own)
  fetches,                                    \* calls of fetchStockHistory not settled yet:
                                              \* <<number, calling handler, symbol>>
  timers,                                     \* pending setTimeout callbacks that clear error
  started,                                    \* number of fetches started so far
  lastOutcome,                                \* what the fetch started last has written:
                                              \* <<handler, result, stockSymbol, stockHistory>>
  historySymbol,                              \* the symbol stockHistory was fetched for
  event,                                      \* the handler step taken last
  chatHistory, isThinking, isPlayingAudio,    \* fields of the App state
  replies,                                    \* calls of getAgentResponse not settled yet:
                                              \* <<number, newHistory of the calling closure>>
  speeches,                                   \* voice-overs playing or being generated
  sentLog, receivedLog                        \* user messages sent, model replies received

forecastVars == <<data, steps, fc, fcDone, fcLog>>
statVars == <<xs, ys, betaRes, betaReads, covRes, covReads, statDone>>
metricVars == <<stockSymbol, stockHistory, benchmarkReturns, metrics, calls, zeroVolSharpes>>
uiVars == <<view, selectedDept, isLoadingStock, error, inputSymbol, fetches, timers,
            started, lastOutcome, historySymbol, event>>
chatVars == <<chatHistory, isThinking, isPlayingAudio, replies, speeches, sentLog, receivedLog>>
vars == <<forecastVars, statVars, metricVars, uiVars, chatVars>>

ForecastIdle ==
  /\ data = <<>> /\ steps = 1 /\ fcDone = FALSE
  /\ fc = [forecast |-> <<>>, rSquared |-> Zero]
  /\ fcLog = {}

StatIdle ==
  /\ xs = <<>> /\ ys = <<>> /\ statDone = {}
  /\ betaRes = Zero /\ betaReads = 0 /\ covRes = Zero /\ covReads = 0

\* useState initial value: stockSymbol '', stockHistory []; the memo's first run
\* sees an empty history and returns the neutral summary for the symbol ''.
MetricsInitial ==
  /\ stockSymbol = "" /\ stockHistory = <<>>
  /\ benchmarkReturns = <<>>
  /\ metrics = NeutralSummary("")
  /\ calls = {}
  /\ zeroVolSharpes = {}

\* state.error: null, or the message of the catch branch of handleStockSearch
\* (the 404 message quotes the ticker)
NoError == <<"null", "">>

\* useState initial value of the App state (view, selectedDept, isLoadingStock,
\* error) and of inputSymbol; nothing is in flight
UIInitial ==
  /\ view = "landing" /\ selectedDept = "FINANCE"
  /\ isLoadingStock = FALSE /\ error = NoError
  /\ inputSymbol = ""
  /\ fetches = {} /\ timers = 0 /\ started = 0
  /\ lastOutcome = <<"", "none", "", <<>>>>
  /\ historySymbol = ""
  /\ event = <<"mount", "">>

\* useState initial value: chatHistory [], isThinking false, isPlayingAudio false
ChatInitial ==
  /\ chatHistory = <<>> /\ isThinking = FALSE /\ isPlayingAudio = FALSE
  /\ replies = {} /\ speeches = 0
  /\ sentLog = {} /\ receivedLog = {}

----------------------------------------------------------------------------
\* generateForecast applied to every bounded input

InitForecast ==
  /\ data \in SeqsUpTo(CloseValues, MaxLen)
  /\ steps \in 1..MaxSteps
  /\ fcDone = FALSE
  /\ fc = [forecast |-> <<>>, rSquared |-> Zero]
  /\ fcLog = {}
  /\ StatIdle /\ MetricsInitial /\ UIInitial /\ ChatInitial

CallGenerateForecast ==
  /\ ~fcDone
  /\ fc' = generateForecast(data, steps)
  /\ fcDone' = TRUE
  /\ UNCHANGED <<data, steps, fcLog, statVars, metricVars, uiVars, chatVars>>

NextForecast == CallGenerateForecast

SpecForecast == InitForecast /\ [][NextForecast]_vars

----------------------------------------------------------------------------
\* Several calls of generateForecast on the same closes array, as the
\* forecastData memo makes them (a short and a quarterly horizon)

InitHorizons ==
  /\ data \in SeqsUpTo(CloseValues, MaxLen)
  /\ steps = 1
  /\ fcDone = FALSE
  /\ fc = [forecast |-> <<>>, rSquared |-> Zero]
  /\ fcLog = {}
  /\ StatIdle /\ MetricsInitial /\ UIInitial /\ ChatInitial

\* generateForecast(closes, n): the function reads data (y = data, reduce) and
\* has no assignment to it or to any variable outside the call.
CallWithSteps(n) ==
  \E result \in {generateForecast(data, n)} :
    /\ steps' = n
    /\ fc' = result
    /\ fcDone' = TRUE
    /\ data' = data
    /\ fcLog' = fcLog \cup {<<n, data, data', result>>}
    /\ UNCHANGED <<statVars, metricVars, uiVars, chatVars>>

NextHorizons == \E n \in 1..MaxSteps : CallWithSteps(n)

SpecHorizons == InitHorizons /\ [][NextHorizons]_vars

----------------------------------------------------------------------------
\* calculateBeta and calculateCovariance applied to every bounded pair of inputs

InitStats ==
  /\ xs \in SeqsUpTo(StatValues, MaxStatLen)
  /\ ys \in SeqsUpTo(StatValues, MaxStatLen)
  /\ statDone = {}
  /\ betaRes = Zero /\ betaReads = 0 /\ covRes = Zero /\ covReads = 0
  /\ ForecastIdle /\ MetricsInitial /\ UIInitial /\ ChatInitial

CallCalculateBeta ==
  /\ "beta" \notin statDone
  /\ betaRes' = calculateBeta(xs, ys)
  /\ betaReads' = BetaReads(xs, ys)
  /\ statDone' = statDone \cup {"beta"}
  /\ UNCHANGED <<xs, ys, covRes, covReads, forecastVars, metricVars, uiVars, chatVars>>

CallCalculateCovariance ==
  /\ "cov" \notin statDone
  /\ covRes' = calculateCovariance(xs, ys)
  /\ covReads' = CovReads(xs, ys)
  /\ statDone' = statDone \cup {"cov"}
  /\ UNCHANGED <<xs, ys, betaRes, betaReads, forecastVars, metricVars, uiVars, chatVars>>

NextStats == CallCalculateBeta \/ CallCalculateCovariance

SpecStats == InitStats /\ [][NextStats]_vars

----------------------------------------------------------------------------
\* The metrics memo: re-evaluated whenever state.stockHistory is replaced

InitMetrics == ForecastIdle /\ StatIdle /\ MetricsInitial /\ UIInitial /\ ChatInitial

\* setState({stockSymbol: symbol, stockHistory: history}) followed by the render
\* that re-evaluates the memo
SetStockHistory(symbol, history) ==
  \E b \in getMarketBenchmark(IF Len(history) < 2 THEN 0 ELSE Len(history) - 1) :
    \E m \in {Metrics(history, b, symbol)} :
       /\ stockSymbol' = symbol
       /\ stockHistory' = history
       /\ benchmarkReturns' = b
       /\ metrics' = m
       /\ calls' = MetricsCalls(history)
       /\ zeroVolSharpes' =
            IF Len(history) >= 2 /\ FEq(m.volatility, Zero)
            THEN zeroVolSharpes \cup {m.sharpe}
            ELSE zeroVolSharpes
       /\ UNCHANGED <<forecastVars, statVars, uiVars, chatVars>>

NextMetrics ==
  \E symbol \in Symbols, history \in SeqsUpTo(HistValues, MaxHistLen) :
    SetStockHistory(symbol, history)

SpecMetrics == InitMetrics /\ [][NextMetrics]_vars

----------------------------------------------------------------------------
\* Stock searches from the quote source to the metrics memo

\* handleStockSearch(symbol) for a non-empty symbol (an empty one returns at
\* once), with the fetch settled: the setState of the try or of the catch
\* branch, followed by the render that re-evaluates the memo
HandleStockSearch(symbol, source) ==
  \E r \in {SearchOutcome(symbol, source)} : SetStockHistory(r[1], r[2])

NextFetch == \E symbol \in Symbols \ {""}, source \in Sources : HandleStockSearch(symbol, source)

SpecFetch == InitMetrics /\ [][NextFetch]_vars

----------------------------------------------------------------------------
\* The stock handlers of the App component with their fetches in flight:
\* handleStockSearch and enterWorkspace up to their await, the continuation of
\* each after fetchStockHistory has settled, and the other state updates of the
\* two views. setState(prev => ...) updates are applied one at a time, in the
\* order they were queued, and a render follows each handler step.

\* Fetches started in one run
MaxFetches == 2

\* Close arrays of the charts the quote source serves to the two views
UIQuotes == { <<>>, <<One>>, <<FromInt(2), One>> }

UISources == {<<"error", <<>>>>} \cup { <<"chart", q>> : q \in UIQuotes }

\* fetchStockHistory(symbol) for what the quote source delivers: <<"ok", closes>>
\* when the backend serves at least one point, else the error thrown:
\* STOCK_NOT_FOUND for a 404 (no point left after the backend's filter), the
\* axios error for a network error, a timeout or a 500. No branch returns
\* simulated data: fetchSimulatedData is not called.
FetchStockHistory(source) ==
  IF source[1] = "error" THEN <<"error", <<>>>>
  ELSE IF BackendCloses(source[2]) = <<>> THEN <<"STOCK_NOT_FOUND", <<>>>>
  ELSE <<"ok", ClientCloses(BackendCloses(source[2]))>>

\* ErrorMessage leaving the message empty.
ErrorMessage_Blank(thrown, symbol) == <<"", "">>

\* errorMessage of the catch branch of handleStockSearch
ErrorMessage(thrown, symbol) ==
  IF thrown = "STOCK_NOT_FOUND"
  THEN <<"Company not in the records. Ticker does not exist.", symbol>>
  ELSE <<"Company not in the records. Please check the ticker symbol and try again.", "">>

\* length of the benchmark the metrics memo asks for
BenchLen(history) == IF Len(history) < 2 THEN 0 ELSE Len(history) - 1

\* A render after stockSymbol or stockHistory was replaced: the metrics memo
\* is re-evaluated, with b the benchmark drawn and m its result
StoreStock(symbol, history, b, m) ==
  /\ stockSymbol' = symbol
  /\ stockHistory' = history
  /\ benchmarkReturns' = b
  /\ metrics' = m
  /\ calls' = MetricsCalls(history)
  /\ zeroVolSharpes' =
       IF Len(history) >= 2 /\ FEq(m.volatility, Zero)
       THEN zeroVolSharpes \cup {m.sharpe}
       ELSE zeroVolSharpes

\* onChange of the ticker input of either view: setInputSymbol(value.toUpperCase())
TypeSymbol(s) ==
  /\ inputSymbol' = s
  /\ event' = <<"setInputSymbol", s>>
  /\ UNCHANGED <<view, selectedDept, isLoadingStock, error, fetches, timers, started,
                 lastOutcome, historySymbol>>
  /\ UNCHANGED <<forecastVars, statVars, metricVars, chatVars>>

\* handleStockSearch(inputSymbol) with an empty input: if (!symbol) return
SearchEmpty ==
  /\ view = "workspace" /\ selectedDept = "FINANCE"
  /\ inputSymbol = ""
  /\ event' = <<"handleStockSearch", "">>
  /\ UNCHANGED <<view, selectedDept, isLoadingStock, error, inputSymbol, fetches, timers,
                 started, lastOutcome, historySymbol>>
  /\ UNCHANGED <<forecastVars, statVars, metricVars, chatVars>>

\* handleStockSearch(inputSymbol) up to its await: the Update button and the
\* Enter key of the workspace header, shown for the FINANCE sector and never
\* disabled
SearchStart ==
  /\ view = "workspace" /\ selectedDept = "FINANCE"
  /\ inputSymbol # ""
  /\ started < MaxFetches
  /\ isLoadingStock' = TRUE
  /\ error' = NoError
  /\ started' = started + 1
  /\ fetches' = fetches \cup {<<started + 1, "handleStockSearch", inputSymbol>>}
  /\ lastOutcome' = <<"handleStockSearch", "pending", "", <<>>>>
  /\ event' = <<"handleStockSearch", inputSymbol>>
  /\ UNCHANGED <<view, selectedDept, inputSymbol, timers, historySymbol>>
  /\ UNCHANGED <<forecastVars, statVars, metricVars, chatVars>>

\* The continuation of handleStockSearch(symbol) once its fetch has settled:
\* the setState of the try branch, or the setState of the catch branch and the
\* setTimeout it arms
SearchSettles(id, symbol, source) ==
  \E r \in {FetchStockHistory(source)} :
    \E p \in {IF r[1] = "ok" THEN <<symbol, r[2]>> ELSE <<"", <<>>>>} :
      \E b \in getMarketBenchmark(BenchLen(p[2])) :
        \E m \in {Metrics(p[2], b, p[1])} :
          /\ <<id, "handleStockSearch", symbol>> \in fetches
          /\ fetches' = fetches \ {<<id, "handleStockSearch", symbol>>}
          /\ StoreStock(p[1], p[2], b, m)
          /\ isLoadingStock' = FALSE
          /\ error' = IF r[1] = "ok" THEN NoError ELSE ErrorMessage(r[1], symbol)
          /\ timers' = IF r[1] = "ok" THEN timers ELSE timers + 1
          /\ historySymbol' = p[1]
          /\ lastOutcome' = IF id = started THEN <<"handleStockSearch", r[1], p[1], p[2]>>
                            ELSE lastOutcome
          /\ event' = <<"handleStockSearch settled", r[1]>>
          /\ UNCHANGED <<view, selectedDept, inputSymbol, started>>
          /\ UNCHANGED <<forecastVars, statVars, chatVars>>

\* The callback armed by the catch branch: setState(prev => ({...prev, error: null}))
ErrorTimeout ==
  /\ timers > 0
  /\ timers' = timers - 1
  /\ error' = NoError
  /\ event' = <<"setTimeout", "">>
  /\ UNCHANGED <<view, selectedDept, isLoadingStock, inputSymbol, fetches, started,
                 lastOutcome, historySymbol>>
  /\ UNCHANGED <<forecastVars, statVars, metricVars, chatVars>>

\* The close button of the error toast
DismissError ==
  /\ view = "workspace" /\ error # NoError
  /\ error' = NoError
  /\ event' = <<"dismiss", "">>
  /\ UNCHANGED <<view, selectedDept, isLoadingStock, inputSymbol, fetches, timers, started,
                 lastOutcome, historySymbol>>
  /\ UNCHANGED <<forecastVars, statVars, metricVars, chatVars>>

\* enterWorkspace(FINANCE) with an empty input: alert and return
EnterFinanceEmpty ==
  /\ view = "landing"
  /\ inputSymbol = ""
  /\ event' = <<"enterWorkspace", "">>
  /\ UNCHANGED <<view, selectedDept, isLoadingStock, error, inputSymbol, fetches, timers,
                 started, lastOutcome, historySymbol>>
  /\ UNCHANGED <<forecastVars, statVars, metricVars, chatVars>>

\* enterWorkspace(FINANCE) with a ticker, up to its await
EnterFinanceStart ==
  /\ view = "landing"
  /\ inputSymbol # ""
  /\ started < MaxFetches
  /\ isLoadingStock' = TRUE
  /\ started' = started + 1
  /\ fetches' = fetches \cup {<<started + 1, "enterWorkspace", inputSymbol>>}
  /\ lastOutcome' = <<"enterWorkspace", "pending", "", <<>>>>
  /\ event' = <<"enterWorkspace", inputSymbol>>
  /\ UNCHANGED <<view, selectedDept, error, inputSymbol, timers, historySymbol>>
  /\ UNCHANGED <<forecastVars, statVars, metricVars, chatVars>>

\* The continuation of enterWorkspace(FINANCE) after a fetch that succeeded;
\* inputSymbol is the one of the closure that started the fetch
EnterSucceeds(id, symbol, source) ==
  \E r \in {FetchStockHistory(source)} :
    \E b \in getMarketBenchmark(BenchLen(r[2])) :
      \E m \in {Metrics(r[2], b, symbol)} :
        /\ r[1] = "ok"
        /\ <<id, "enterWorkspace", symbol>> \in fetches
        /\ fetches' = fetches \ {<<id, "enterWorkspace", symbol>>}
        /\ view' = "workspace"
        /\ selectedDept' = "FINANCE"
        /\ StoreStock(symbol, r[2], b, m)
        /\ isLoadingStock' = FALSE
        /\ error' = NoError
        /\ historySymbol' = symbol
        /\ lastOutcome' = IF id = started THEN <<"enterWorkspace", r[1], symbol, r[2]>>
                          ELSE lastOutcome
        /\ event' = <<"enterWorkspace settled", r[1]>>
        /\ UNCHANGED <<inputSymbol, timers, started>>
        /\ UNCHANGED <<forecastVars, statVars, chatVars>>

\* EnterFails opening the workspace all the same.
EnterFails_OpensWorkspace(id, symbol, source) ==
  \E r \in {FetchStockHistory(source)} :
    /\ r[1] # "ok"
    /\ <<id, "enterWorkspace", symbol>> \in fetches
    /\ fetches' = fetches \ {<<id, "enterWorkspace", symbol>>}
    /\ isLoadingStock' = FALSE
    /\ view' = "workspace"
    /\ lastOutcome' = IF id = started THEN <<"enterWorkspace", r[1], stockSymbol, stockHistory>>
                      ELSE lastOutcome
    /\ event' = <<"enterWorkspace settled", r[1]>>
    /\ UNCHANGED <<selectedDept, error, inputSymbol, timers, started, historySymbol>>
    /\ UNCHANGED <<forecastVars, statVars, metricVars, chatVars>>

\* The continuation of enterWorkspace(FINANCE) after a fetch that failed:
\* setState(prev => ({...prev, isLoadingStock: false})), an alert, return
EnterFails(id, symbol, source) ==
  \E r \in {FetchStockHistory(source)} :
    /\ r[1] # "ok"
    /\ <<id, "enterWorkspace", symbol>> \in fetches
    /\ fetches' = fetches \ {<<id, "enterWorkspace", symbol>>}
    /\ isLoadingStock' = FALSE
    /\ lastOutcome' = IF id = started THEN <<"enterWorkspace", r[1], stockSymbol, stockHistory>>
                      ELSE lastOutcome
    /\ event' = <<"enterWorkspace settled", r[1]>>
    /\ UNCHANGED <<view, selectedDept, error, inputSymbol, timers, started, historySymbol>>
    /\ UNCHANGED <<forecastVars, statVars, metricVars, chatVars>>

\* enterWorkspace(dept) for the other sector: stockSymbol: inputSymbol || prev.stockSymbol.
\* With an empty input or the symbol already shown no dependency of the memo changes.
EnterOperationsSameSymbol ==
  /\ view = "landing"
  /\ inputSymbol \in {"", stockSymbol}
  /\ view' = "workspace"
  /\ selectedDept' = "OPERATIONS"
  /\ event' = <<"enterWorkspace", "OPERATIONS">>
  /\ UNCHANGED <<isLoadingStock, error, inputSymbol, fetches, timers, started, lastOutcome,
                 historySymbol>>
  /\ UNCHANGED <<forecastVars, statVars, metricVars, chatVars>>

\* enterWorkspace(dept) for the other sector with another ticker in the input:
\* stockSymbol is replaced, stockHistory is not part of the update, and the
\* memo (dependencies stockHistory and stockSymbol) is re-evaluated
EnterOperationsNewSymbol(symbol, history) ==
  \E b \in getMarketBenchmark(BenchLen(history)) :
    \E m \in {Metrics(history, b, symbol)} :
      /\ view = "landing"
      /\ inputSymbol = symbol /\ symbol # stockSymbol
      /\ stockHistory = history
      /\ view' = "workspace"
      /\ selectedDept' = "OPERATIONS"
      /\ StoreStock(symbol, history, b, m)
      /\ event' = <<"enterWorkspace", "OPERATIONS">>
      /\ UNCHANGED <<isLoadingStock, error, inputSymbol, fetches, timers, started,
                     lastOutcome, historySymbol>>
      /\ UNCHANGED <<forecastVars, statVars, chatVars>>

\* The logo of the navigation rail: setState(p => ({...p, view: 'landing'}))
GoToLanding ==
  /\ view = "workspace"
  /\ view' = "landing"
  /\ event' = <<"logo", "">>
  /\ UNCHANGED <<selectedDept, isLoadingStock, error, inputSymbol, fetches, timers, started,
                 lastOutcome, historySymbol>>
  /\ UNCHANGED <<forecastVars, statVars, metricVars, chatVars>>

\* The sector items of the navigation rail
SelectDept(dept) ==
  /\ view = "workspace"
  /\ selectedDept' = dept
  /\ event' = <<"sidebar", dept>>
  /\ UNCHANGED <<view, isLoadingStock, error, inputSymbol, fetches, timers, started,
                 lastOutcome, historySymbol>>
  /\ UNCHANGED <<forecastVars, statVars, metricVars, chatVars>>

\* The histories fetchStockHistory can put into stockHistory
UIHistories ==
  {<<>>} \cup { FetchStockHistory(source)[2] : source \in UISources }

NextUI ==
  \/ \E s \in Symbols \cup {""} : TypeSymbol(s)
  \/ SearchEmpty
  \/ SearchStart
  \/ \E id \in 1..MaxFetches, symbol \in Symbols, source \in UISources :
       SearchSettles(id, symbol, source)
  \/ ErrorTimeout
  \/ DismissError
  \/ EnterFinanceEmpty
  \/ EnterFinanceStart
  \/ \E id \in 1..MaxFetches, symbol \in Symbols, source \in UISources :
       EnterSucceeds(id, symbol, source)
  \/ \E id \in 1..MaxFetches, symbol \in Symbols, source \in UISources :
       EnterFails(id, symbol, source)
  \/ EnterOperationsSameSymbol
  \/ \E symbol \in Symbols, history \in UIHistories : EnterOperationsNewSymbol(symbol, history)
  \/ GoToLanding
  \/ \E dept \in {"FINANCE", "OPERATIONS"} : SelectDept(dept)

SpecUI == InitMetrics /\ [][NextUI]_vars

----------------------------------------------------------------------------
\* The forecastData memo of the App component

\* if (state.stockHistory.length < 5)
ForecastMinPoints == 5

\* generateForecast(closes, 10) and generateForecast(closes, 90)
ShortTermSteps == 10
QuarterlySteps == 90

\* forecastData whose length test lets a history of four points through.
forecastData_FromFourPoints(closes) ==
  IF Len(closes) < 4
  THEN [forecast |-> <<>>, rSquared |-> Zero, quarterlyForecast |-> <<>>]
  ELSE [forecast |-> generateForecast(closes, ShortTermSteps).forecast,
        rSquared |-> generateForecast(closes, QuarterlySteps).rSquared,
        quarterlyForecast |-> generateForecast(closes, QuarterlySteps).forecast]

\* The value of the memo for the closes of state.stockHistory
forecastData(closes) ==
  IF Len(closes) < ForecastMinPoints
  THEN [forecast |-> <<>>, rSquared |-> Zero, quarterlyForecast |-> <<>>]
  ELSE [forecast |-> generateForecast(closes, ShortTermSteps).forecast,
        rSquared |-> generateForecast(closes, QuarterlySteps).rSquared,
        quarterlyForecast |-> generateForecast(closes, QuarterlySteps).forecast]

\* Histories around the length at which the memo starts to forecast
MinDashLen == 4
MaxDashLen == 5

DashHistories == UNION { [1..k -> {One, FromInt(2)}] : k \in MinDashLen..MaxDashLen }

\* A fetched history replaces state.stockHistory; the render re-evaluates the
\* metrics memo and the forecastData memo
NextDashboard == \E history \in DashHistories : SetStockHistory("AAPL", history)

SpecDashboard == InitMetrics /\ [][NextDashboard]_vars

----------------------------------------------------------------------------
\* The chat panel of the workspace: sendChatMessage up to its await, and its
\* continuation once getAgentResponse has settled. The handler of a click or
\* of the Enter key belongs to the latest render, so the state.chatHistory it
\* reads is the current one; the continuation keeps the newHistory it built
\* before the await.

\* Messages sent in one run
MaxMessages == 3

\* The workspace as enterWorkspace(OPERATIONS) opens it from the initial
\* state with an empty ticker input
InitChat ==
  /\ ForecastIdle /\ StatIdle /\ MetricsInitial /\ ChatInitial
  /\ view = "workspace" /\ selectedDept = "OPERATIONS"
  /\ isLoadingStock = FALSE /\ error = NoError
  /\ inputSymbol = ""
  /\ fetches = {} /\ timers = 0 /\ started = 0
  /\ lastOutcome = <<"", "none", "", <<>>>>
  /\ historySymbol = ""
  /\ event = <<"enterWorkspace", "OPERATIONS">>

\* sendChatMessage(text) for a text that is not blank (a blank one returns at
\* once), up to the await: message k is <<"user", k>>, its reply <<"model", k>>
SendChatMessage ==
  \E k \in {Cardinality(sentLog) + 1} :
    \E newHistory \in {Append(chatHistory, <<"user", k>>)} :
      /\ view = "workspace"
      /\ k <= MaxMessages
      /\ chatHistory' = newHistory
      /\ isThinking' = TRUE
      /\ replies' = replies \cup {<<k, newHistory>>}
      /\ sentLog' = sentLog \cup {<<"user", k>>}
      /\ UNCHANGED <<isPlayingAudio, speeches, receivedLog>>
      /\ UNCHANGED <<forecastVars, statVars, metricVars, uiVars>>

\* The continuation after getAgentResponse has returned: finalHistory is built
\* from the newHistory of the call, the save's outcome is ignored, and
\* playVoiceover sets isPlayingAudio
ReplyArrives(call) ==
  /\ call \in replies
  /\ replies' = replies \ {call}
  /\ chatHistory' = Append(call[2], <<"model", call[1]>>)
  /\ isThinking' = FALSE
  /\ receivedLog' = receivedLog \cup {<<"model", call[1]>>}
  /\ isPlayingAudio' = TRUE
  /\ speeches' = speeches + 1
  /\ UNCHANGED sentLog
  /\ UNCHANGED <<forecastVars, statVars, metricVars, uiVars>>

\* The continuation after getAgentResponse has thrown
ReplyFails(call) ==
  /\ call \in replies
  /\ replies' = replies \ {call}
  /\ isThinking' = FALSE
  /\ UNCHANGED <<chatHistory, isPlayingAudio, speeches, sentLog, receivedLog>>
  /\ UNCHANGED <<forecastVars, statVars, metricVars, uiVars>>

\* The end of a voice-over: source.onended, or no audio data was generated
SpeechEnds ==
  /\ speeches > 0
  /\ speeches' = speeches - 1
  /\ isPlayingAudio' = FALSE
  /\ UNCHANGED <<chatHistory, isThinking, replies, sentLog, receivedLog>>
  /\ UNCHANGED <<forecastVars, statVars, metricVars, uiVars>>

NextChat ==
  \/ SendChatMessage
  \/ \E call \in replies : ReplyArrives(call)
  \/ \E call \in replies : ReplyFails(call)
  \/ SpeechEnds

SpecChat == InitChat /\ [][NextChat]_vars

----------------------------------------------------------------------------
\* Properties of generateForecast (SpecForecast)

\* C1: on a close series of length 0 or 1 generateForecast returns an empty
\* forecast and rSquared = 0, for every positive steps value.
C1_DegenerateForecastIsEmpty ==
  (fcDone /\ Len(data) <= 1) => (fc.forecast = <<>> /\ FEq(fc.rSquared, Zero))

----------------------------------------------------------------------------
\* Properties of the metrics memo (SpecMetrics)

\* C2: for a history of length 0 or 1 the risk summary is exactly the neutral
\* summary (growth 0, volatility 0, beta 1, covariance 0, sharpe 0, confidence 0)
\* and no benchmark, beta, covariance or forecast computation is performed.
C2_ShortHistoryIsNeutral ==
  Len(stockHistory) < 2 =>
    /\ metrics = [symbol |-> stockSymbol,
                  growth |-> <<"fin", 0, 0>>, volatility |-> <<"fin", 0, 0>>,
                  sharpe |-> <<"fin", 0, 0>>, beta |-> <<"fin", 1, 0>>,
                  covariance |-> <<"fin", 0, 0>>, cagr |-> <<"fin", 0, 0>>,
                  confidence |-> <<"fin", 0, 0>>]
    /\ calls = {}
    /\ benchmarkReturns = <<>>

\* A one-point history has been loaded.
C2_Witness == Len(stockHistory) = 1 /\ stockSymbol # ""

\* C3: with volatility 0 for a history of length >= 2, sharpe is one sentinel
\* value, the same whatever the value of growth.
C3_OneSharpeSentinel == Cardinality(zeroVolSharpes) <= 1

\* C4: for every history of length >= 2 of positive closes, growth, volatility,
\* beta, covariance and confidence are defined numbers, never an undefined 0/0.
C4_AllFieldsDefined ==
  Len(stockHistory) >= 2 =>
    /\ IsFinite(metrics.growth)
    /\ IsFinite(metrics.volatility)
    /\ IsFinite(metrics.beta)
    /\ IsFinite(metrics.covariance)
    /\ IsFinite(metrics.confidence)

----------------------------------------------------------------------------
\* Properties of calculateBeta and calculateCovariance (SpecStats)

AllEqual(s) == \A i, j \in 1..Len(s) : s[i] = s[j]

\* Sum((a_i - mean(a)) * (b_i - mean(b))) for equal-length series
Mean(s) == FDiv(SumSeq(s), FromInt(Len(s)))

SumOfProducts(a, b) ==
  SumSeq([i \in 1..Len(a) |-> FMul(FSub(a[i], Mean(a)), FSub(b[i], Mean(b)))])

\* C5: calculateBeta returns exactly 1.0 whenever all benchmark values are
\* equal, for every series of the same length.
C5_ZeroVarianceBetaIsOne ==
  ("beta" \in statDone /\ Len(xs) = Len(ys) /\ AllEqual(ys)) => betaRes = One

\* C6: with series of different lengths calculateBeta returns 1.0 and
\* calculateCovariance returns 0, without reading an element of either series.
C6_MismatchedLengthDefaults ==
  Len(xs) # Len(ys) =>
    /\ "beta" \in statDone => (betaRes = One /\ betaReads = 0)
    /\ "cov" \in statDone => (covRes = Zero /\ covReads = 0)

\* Both functions were called on non-empty series of different lengths.
C6_Witness ==
  /\ statDone = {"beta", "cov"}
  /\ Len(xs) # Len(ys) /\ Len(xs) > 0 /\ Len(ys) > 0
  /\ ~AllEqual(xs) /\ ~AllEqual(ys)

\* C7: for equal-length series where the benchmark values are not all equal,
\* calculateBeta is Sum((x_i - meanX)(y_i - meanY)) / Sum((y_i - meanY)^2).
C7_BetaIsCovOverVar ==
  ("beta" \in statDone /\ Len(xs) = Len(ys) /\ ~AllEqual(ys)) =>
    betaRes = FDiv(SumOfProducts(xs, ys), SumOfProducts(ys, ys))

\* A beta other than the default 1 and other than 0 was computed.
C7_Witness ==
  /\ "beta" \in statDone /\ Len(xs) = Len(ys) /\ ~AllEqual(ys)
  /\ IsFinite(betaRes) /\ betaRes # One /\ betaRes # Zero

\* C8: for equal-length series of length n calculateCovariance is the sample
\* covariance Sum((a_i - meanA)(b_i - meanB)) / (n - 1), and 0 when n = 0.
C8_SampleCovariance ==
  ("cov" \in statDone /\ Len(xs) = Len(ys)) =>
    covRes = IF Len(xs) = 0 THEN Zero
             ELSE FDiv(SumOfProducts(xs, ys), FromInt(Len(xs) - 1))

\* A non-zero covariance of two series of length >= 2 was computed.
C8_Witness ==
  /\ "cov" \in statDone /\ Len(xs) = Len(ys) /\ Len(xs) >= 2
  /\ IsFinite(covRes) /\ covRes # Zero

----------------------------------------------------------------------------
\* Properties of generateForecast (SpecForecast), continued

\* Sum of f over x = 0..n-1, added in index order
RECURSIVE SigmaTo(_, _)
SigmaTo(f, n) == IF n = 0 THEN Zero ELSE FAdd(SigmaTo(f, n - 1), f[n - 1])

\* (n*Sum(xy) - Sum(x)*Sum(y)) / (n*Sum(x^2) - (Sum x)^2) over x = 0..n-1
LsqSlope(y) ==
  LET n   == Len(y)
      N   == FromInt(n)
      Sx  == SigmaTo([x \in 0..(n - 1) |-> FromInt(x)], n)
      Sy  == SigmaTo([x \in 0..(n - 1) |-> y[x + 1]], n)
      Sxy == SigmaTo([x \in 0..(n - 1) |-> FMul(FromInt(x), y[x + 1])], n)
      Sxx == SigmaTo([x \in 0..(n - 1) |-> FromInt(x * x)], n)
  IN FDiv(FSub(FMul(N, Sxy), FMul(Sx, Sy)), FSub(FMul(N, Sxx), FMul(Sx, Sx)))

\* (Sum(y) - slope*Sum(x)) / n
LsqIntercept(y) ==
  LET n  == Len(y)
      Sx == SigmaTo([x \in 0..(n - 1) |-> FromInt(x)], n)
      Sy == SigmaTo([x \in 0..(n - 1) |-> y[x + 1]], n)
  IN FDiv(FSub(Sy, FMul(LsqSlope(y), Sx)), FromInt(n))

\* C9: for a close series of length n >= 2 generateForecast returns exactly
\* steps points, point k (k = 0..steps-1) being slope*(n+k) + intercept of the
\* least-squares line; the points are not clamped.
C9_ForecastIsFittedLine ==
  (fcDone /\ Len(data) >= 2) =>
    /\ Len(fc.forecast) = steps
    /\ \A k \in 0..(steps - 1) :
         fc.forecast[k + 1] =
           FAdd(FMul(LsqSlope(data), FromInt(Len(data) + k)), LsqIntercept(data))

\* A decreasing series was projected to a negative price.
C9_Witness ==
  /\ fcDone /\ Len(data) >= 2
  /\ \E k \in 1..Len(fc.forecast) : IsFinite(fc.forecast[k]) /\ fc.forecast[k][2] < 0

\* C10: for every close series the rSquared generateForecast returns lies in
\* [0, 1].
C10_RSquaredInUnitInterval ==
  fcDone => (FLe(Zero, fc.rSquared) /\ FLe(fc.rSquared, One))

\* C11: for a constant close series of length >= 2 (every close equal to c)
\* generateForecast returns rSquared = 0 and every forecast point equal to c,
\* for every steps value.
C11_ConstantSeriesIsFlat ==
  (fcDone /\ Len(data) >= 2 /\ AllEqual(data)) =>
    /\ FEq(fc.rSquared, Zero)
    /\ \A k \in 1..Len(fc.forecast) : FEq(fc.forecast[k], data[1])

\* The exact value of a finite number as an integer multiple of 2^e0
Scaled(a, e0) == a[2] * Pow2(a[3] - e0)

\* The smallest exponent among the elements of a non-empty finite series
MinExp(y) == CHOOSE e \in { y[i][3] : i \in 1..Len(y) } : \A i \in 1..Len(y) : e <= y[i][3]

\* y_i = a + b*i exactly, with b # 0
IsLinear(y) ==
  LET e0 == MinExp(y)
      a  == Scaled(y[1], e0)
      b  == Scaled(y[2], e0) - a
  IN b # 0 /\ \A i \in 1..Len(y) : Scaled(y[i], e0) = a + b * (i - 1)

\* The number nearest to a + b*j on the line through a linear series
LinePoint(y, j) ==
  LET e0 == MinExp(y)
      a  == Scaled(y[1], e0)
      b  == Scaled(y[2], e0) - a
  IN RoundNE(a + b * j, e0)

\* C12: for a perfectly linear close series y_i = a + b*i with b # 0 and
\* length n >= 2 generateForecast continues the line exactly (point k equals
\* a + b*(n+k)) and returns rSquared = 1.
C12_LinearSeriesIsContinued ==
  (fcDone /\ Len(data) >= 2 /\ IsLinear(data)) =>
    /\ FEq(fc.rSquared, One)
    /\ \A k \in 0..(Len(fc.forecast) - 1) :
         FEq(fc.forecast[k + 1], LinePoint(data, Len(data) + k))

----------------------------------------------------------------------------
\* Properties of repeated calls of generateForecast (SpecHorizons)

\* C13: calls of generateForecast on the same closes with different steps do
\* not interfere: for k <= m the k-step forecast is the first k points of the
\* m-step forecast, rSquared is the same for every steps value, each call
\* leaves the closes array unchanged, and a call's result does not depend on
\* the calls made before it (two calls with the same steps agree).
C13_HorizonsDoNotInterfere ==
  \A c1 \in fcLog, c2 \in fcLog :
    /\ c1[3] = c1[2]
    /\ c1[4].rSquared = c2[4].rSquared
    /\ c1[1] <= c2[1] => c1[4].forecast = SubSeq(c2[4].forecast, 1, c1[1])

\* Every horizon was requested for a series with a non-zero slope, the
\* shortest one last.
C13_Witness ==
  /\ { c[1] : c \in fcLog } = 1..MaxSteps
  /\ steps = 1
  /\ Len(data) >= 2
  /\ \E c \in fcLog : c[1] = MaxSteps /\ c[4].forecast[1] # c[4].forecast[MaxSteps]

----------------------------------------------------------------------------
\* Properties of the metrics memo (SpecMetrics), continued

\* The numeric fields of a risk summary
Numeric(m) == <<m.growth, m.volatility, m.beta, m.covariance, m.sharpe, m.confidence>>

\* C14: the risk summary is a deterministic function of the close series:
\* when the memo is evaluated again for the same closes, growth, volatility,
\* beta, covariance, sharpe and confidence are the same as before.
C14_SummaryIsDeterministic ==
  [][stockHistory' = stockHistory => Numeric(metrics') = Numeric(metrics)]_vars

----------------------------------------------------------------------------
\* Properties of the fetched history (SpecFetch)

\* C15: every close in stockHistory, from which the metrics and the forecast
\* are computed, is > 0: points with a non-positive close are discarded on
\* the way from the quote source through the backend filter and the client's
\* rounding to 2 decimals.
C15_ClosesArePositive ==
  \A i \in 1..Len(stockHistory) : FLt(Zero, stockHistory[i])

----------------------------------------------------------------------------
\* Properties of the metrics memo (SpecMetrics), continued

\* C16: for every close series of length >= 2 the confidence of the risk
\* summary is 100 times the rSquared generateForecast returns for the same
\* closes, whatever the steps value of that call.
C16_ConfidenceIsRSquared ==
  Len(stockHistory) >= 2 =>
    \A n \in 1..MaxSteps :
      metrics.confidence = FMul(generateForecast(stockHistory, n).rSquared, Hundred)

\* A summary with a confidence strictly between 0 and 100.
C16_Witness ==
  /\ Len(stockHistory) >= 2
  /\ FLt(Zero, metrics.confidence) /\ FLt(metrics.confidence, Hundred)

\* C17: for a close series of length L >= 2 the return series has exactly
\* L - 1 entries, returns[i] = (closes[i+1] - closes[i]) / closes[i], and
\* growth is 100 times the arithmetic mean of those returns.
C17_ReturnsAndGrowth ==
  Len(stockHistory) >= 2 =>
    LET L == Len(stockHistory)
        r == [i \in 1..(L - 1) |->
                FDiv(FSub(stockHistory[i + 1], stockHistory[i]), stockHistory[i])]
    IN /\ Len(Returns(stockHistory)) = L - 1
       /\ Returns(stockHistory) = r
       /\ metrics.growth = FMul(Mean(r), Hundred)

\* A summary with a negative growth over three closes.
C17_Witness ==
  /\ Len(stockHistory) = 3
  /\ FLt(metrics.growth, Zero)

\* C18: volatility is 100 times the population standard deviation of the
\* returns, sqrt(Sum((r - mean(returns))^2) / n) * 100 with n the number of
\* returns as the divisor.
C18_PopulationVolatility ==
  Len(stockHistory) >= 2 =>
    LET r == Returns(stockHistory)
        n == FromInt(Len(r))
    IN metrics.volatility =
         FMul(FSqrt(FDiv(SumSeq([i \in 1..Len(r) |-> FSquare(FSub(r[i], Mean(r)))]), n)),
              Hundred)

----------------------------------------------------------------------------
\* Properties of calculateBeta and calculateCovariance (SpecStats), continued

\* C19: for every series x of length n >= 2, calculateCovariance(x, x) is the
\* sample variance Sum((x_i - mean)^2) / (n - 1) of x, and it is not negative.
C19_SelfCovarianceIsVariance ==
  ("cov" \in statDone /\ xs = ys /\ Len(xs) >= 2) =>
    /\ covRes = FDiv(SumSeq([i \in 1..Len(xs) |-> FSquare(FSub(xs[i], Mean(xs)))]),
                     FromInt(Len(xs) - 1))
    /\ FLe(Zero, covRes)

\* The covariance of a non-constant series with itself was computed.
C19_Witness ==
  /\ "cov" \in statDone /\ xs = ys /\ Len(xs) >= 2
  /\ FLt(Zero, covRes)

\* The series 2x: every element of x doubled
Doubled(x) == [i \in 1..Len(x) |-> FMul(FromInt(2), x[i])]

\* C20 as stated: for equal-length series x and y, calculateBeta(2x, y) is
\* exactly 2 * calculateBeta(x, y).
C20_BetaIsLinear ==
  ("beta" \in statDone /\ Len(xs) = Len(ys)) =>
    calculateBeta(Doubled(xs), ys) = FMul(FromInt(2), betaRes)

\* C20 amended: for equal-length series x and y whose benchmark variance
\* Sum((y_i - mean(y))^2), as computed, is not 0, calculateBeta(2x, y) is
\* exactly 2 * calculateBeta(x, y).
C20_BetaIsLinearOffDefault ==
  ("beta" \in statDone /\ Len(xs) = Len(ys) /\ ~FEq(SumOfProducts(ys, ys), Zero)) =>
    calculateBeta(Doubled(xs), ys) = FMul(FromInt(2), betaRes)

\* A beta above 1/2 was computed, so that the beta of 2x is above 1.
C20_Witness ==
  /\ "beta" \in statDone /\ Len(xs) = Len(ys) /\ ~FEq(SumOfProducts(ys, ys), Zero)
  /\ FLt(RoundNE(1, -1), betaRes)
  /\ FLt(One, calculateBeta(Doubled(xs), ys))

----------------------------------------------------------------------------
\* C21: whenever the metrics memo computes a risk summary (two closes or more),
\* the benchmark series it passes to calculateBeta and calculateCovariance has
\* as many values as the return series, len(closes) - 1, so neither function
\* leaves through its mismatched-length guard: both read their arrays.
C21_BenchmarkMatchesReturns ==
  Len(stockHistory) >= 2 =>
    /\ Len(benchmarkReturns) = Len(stockHistory) - 1
    /\ Len(benchmarkReturns) = Len(Returns(stockHistory))
    /\ BetaReads(Returns(stockHistory), benchmarkReturns) = 5 * (Len(stockHistory) - 1)
    /\ CovReads(Returns(stockHistory), benchmarkReturns) = 4 * (Len(stockHistory) - 1)

C21_Witness ==
  /\ Len(stockHistory) = 3
  /\ Len(benchmarkReturns) = 2
  /\ {"getMarketBenchmark", "calculateBeta", "calculateCovariance"} \subseteq calls

----------------------------------------------------------------------------
\* Properties of the stock handlers with fetches in flight (SpecUI)

\* C22: when the fetch of a stock search fails for another reason than an
\* unknown ticker (network error, timeout, server error), the application
\* falls back to simulated data: the step that handles the failure puts a
\* non-empty history for the symbol into stockHistory and shows no error.
C22_FallsBackToSimulatedData ==
  [][event' = <<"handleStockSearch settled", "error">> =>
       /\ stockHistory' # <<>>
       /\ stockSymbol' # ""
       /\ error' = NoError]_vars

\* C24: in every reachable state stockHistory is empty or is the history that
\* was fetched for the symbol in stockSymbol: no handler replaces stockSymbol
\* without storing that symbol's fetched history in the same update.
C24_HistoryBelongsToSymbol ==
  stockHistory = <<>> \/ historySymbol = stockSymbol

\* C25: when the last fetch in flight settles and it belongs to a stock search,
\* the state shows what the search issued last has written: its symbol and
\* history, and no error if it succeeded; whatever the order in which the
\* fetches of overlapping searches settle.
C25_LastSearchWins ==
  [][(/\ event'[1] = "handleStockSearch settled"
      /\ fetches' = {}
      /\ lastOutcome'[1] = "handleStockSearch")
     => /\ stockSymbol' = lastOutcome'[3]
        /\ stockHistory' = lastOutcome'[4]
        /\ (lastOutcome'[2] = "ok" => error' = NoError)]_vars

\* C26: isLoadingStock is true exactly while a fetch started by
\* handleStockSearch or enterWorkspace has not settled.
C26_LoadingWhileFetching ==
  isLoadingStock <=> fetches # {}

----------------------------------------------------------------------------
\* Properties of the chat panel (SpecChat)

\* C23: after any interleaving of sendChatMessage calls and arriving replies,
\* chatHistory holds every user message sent and every model reply received,
\* each exactly once.
C23_ChatHistoryIsComplete ==
  \A m \in sentLog \cup receivedLog :
    Cardinality({ i \in 1..Len(chatHistory) : chatHistory[i] = m }) = 1

----------------------------------------------------------------------------
\* Properties of the forecastData memo (SpecDashboard)

\* C28: with fewer than 5 points in stockHistory forecastData has an empty
\* forecast, an empty quarterlyForecast and rSquared 0; with 5 points or more
\* forecast has exactly 10 points and quarterlyForecast exactly 90, the 10
\* points are the first 10 of the 90, and rSquared * 100 is the confidence of
\* the metrics memo (the same number, compared as a value).
C28_ForecastData ==
  \A fd \in {forecastData(stockHistory)} :
    IF Len(stockHistory) < 5
    THEN fd = [forecast |-> <<>>, rSquared |-> Zero, quarterlyForecast |-> <<>>]
    ELSE /\ Len(fd.forecast) = 10
         /\ Len(fd.quarterlyForecast) = 90
         /\ fd.forecast = SubSeq(fd.quarterlyForecast, 1, 10)
         /\ FMul(fd.rSquared, Hundred) = metrics.confidence

\* Five closes that are not on a line: the fit is neither perfect nor flat
C28_Witness ==
  /\ Len(stockHistory) = 5
  /\ Len(forecastData(stockHistory).quarterlyForecast) = 90
  /\ FLt(Zero, metrics.confidence)
  /\ FLt(metrics.confidence, Hundred)

====
